---------------------------- MODULE Spec2Model ----------------------------
(***************************************************************************)
(* A model of tripser.RecursiveJSONLDParser (src/tripser/tripser.py): the  *)
(* constructor and its setters, the wave loop of parse(), the worker       *)
(* function recursively_add(), the fetcher get_graph() and the cleanup     *)
(* filter; and of the command line (src/tripser/cli.py).                   *)
(*                                                                         *)
(* Strings are sequences of tokens.  A token is a piece of text that the   *)
(* program never looks inside: the string operations of the code           *)
(* (startswith, split("&"), "+", format, replace, unquote) are modelled on *)
(* token sequences.                                                        *)
(*                                                                         *)
(* rdflib terms are records [kind, val].  rdflib's Identifier.__eq__       *)
(* compares the type as well as the text, so URIRef("x") and the plain     *)
(* str "x" are different members of a Python set or list: the field kind   *)
(* ("URIRef", "Literal", "BNode" or "str") keeps that difference.          *)
(***************************************************************************)
EXTENDS Integers, Sequences, FiniteSets, TLC

VARIABLES
    pc,            \* position of the caller / of parse()
    web,           \* the remote data source (fixed during a run)
    ctor_args,     \* the arguments of the constructor call, while __init__ runs
    exc,           \* the exception the constructor raised: "none", "TypeError"
    cli,           \* the command-line run: its --out path, what it logged at
                   \* the end, its exit code (-1 while it runs)
    graph_arg,     \* the value of the constructor's argument `graph`
    heap,          \* the Graph objects: "g" the caller's, "own" the parser's
    self_graph,    \* self.__graph: a reference into heap
    self_serialize_nodes, \* self.__serialize_nodes
    self_entry_point, \* self.__entry_point
    self_tasks,    \* self.__tasks
    parsed_pages,  \* self.__parsed_pages (parse()'s local is an alias)
    tasks,         \* parse()'s local `tasks`
    chunk,         \* index of the chunk the for loop of line 141 is at
    results,       \* parse()'s local `results`: the futures
    submitted,     \* log of the calls client.submit(recursively_add, task)
    files,         \* the names of the files written so far
    outcome,       \* how the last parse() ended: "none", "returned", "raised"
    cleaned,       \* whether cleanup() ran on the parser's graph
    removed,       \* what the last cleanup() / remove_terms() call logged at
                   \* line 262: the patterns and their counts
    first_len,     \* len() of the graph of an earlier parser (-1: there is none)
    calls          \* the number of parse() calls on the parser

vars == <<pc, web, ctor_args, exc, cli, graph_arg, heap, self_graph,
          self_serialize_nodes, self_entry_point, self_tasks, parsed_pages, tasks,
          chunk, results, submitted, files, outcome, cleaned, removed, first_len, calls>>

-----------------------------------------------------------------------------
(* Bounds of the model.                                                    *)

\* Number of entry points assigned to the parser (the constructor's included).
MaxAssign == 8

\* Number of worker threads of the dask cluster behind `client`.
NumWorkers == 2

-----------------------------------------------------------------------------
(* Program constants.                                                      *)

chunk_length == 8
limit == 25
\* logger.setLevel(logging.INFO) in cli.py
logger_level == "INFO"

None == [kind |-> "None", val |-> <<>>]

-----------------------------------------------------------------------------
(* Strings and terms.                                                      *)

CONTENT == "http://pflu.evolbio.mpg.de/web-services/content/"
CONTENT_HTTPS == "https://pflu.evolbio.mpg.de/web-services/content/"
HYDRA == "http://www.w3.org/ns/hydra/core#"

Range(s) == {s[i] : i \in 1..Len(s)}

Digit == <<"0", "1", "2", "3", "4", "5", "6", "7", "8", "9">>

\* "{}".format(n) for a natural number n: its decimal digits.
RECURSIVE Format(_)
Format(n) ==
    IF n < 10 THEN <<Digit[n + 1]>>
    ELSE Format(n \div 10) \o <<Digit[(n % 10) + 1]>>

DigitValue(d) == CHOOSE v \in 0..9 : Digit[v + 1] = d

\* Literal.toPython() of an integer literal: the number its digits spell.
RECURSIVE toPython(_)
toPython(s) ==
    IF Len(s) = 0 THEN 0
    ELSE 10 * toPython(SubSeq(s, 1, Len(s) - 1)) + DigitValue(s[Len(s)])

URIRef(s) == [kind |-> "URIRef", val |-> s]
Literal(s) == [kind |-> "Literal", val |-> s]
BNode(s) == [kind |-> "BNode", val |-> s]
\* str(x): the plain Python string with the text of x.
str(x) == [kind |-> "str", val |-> x.val]

\* s.startswith(prefix), for a prefix that is one token.
startswith(s, prefix) == Len(s) > 0 /\ s[1] = prefix

hydra_PartialCollectionView == URIRef(<<HYDRA, "PartialCollectionView">>)
hydra_totalItems == URIRef(<<HYDRA, "totalItems">>)
rdf_type == URIRef(<<"http://www.w3.org/1999/02/22-rdf-syntax-ns#", "type">>)
rdfs_label == URIRef(<<"http://www.w3.org/2000/01/rdf-schema#", "label">>)
hydra_member == URIRef(<<HYDRA, "member">>)
schema_isPartOf == URIRef(<<"https://schema.org/", "isPartOf">>)

\* The three objects / predicates cleanup() removes.
tmp_PartialCollectionView == URIRef(<<"file:///tmp/", "PartialCollectionView">>)
pflu_PartialCollectionView == URIRef(<<CONTENT, "v0.1/", "PartialCollectionView">>)


-----------------------------------------------------------------------------
(* The remote data source.  A site is described by a record                *)
(*   total    whether collection documents carry a hydra:totalItems        *)
(*            statement, and n, the count it declares;                     *)
(*   fault    what the request for FaultyUri yields: "none" (its           *)
(*            document), "notjson" (a body that is not JSON) or "error"    *)
(*            (a transport failure, e.g. a timeout);                       *)
(*   backlink whether an item's document links back to the page listing it.*)
(* The site is the same for every request of a run.                        *)

Root == <<CONTENT, "v0.1/", "CDS">>
Item(k) == <<CONTENT, "v0.1/", "CDS", "/">> \o Format(k)
External == <<"http://www.sequenceontology.org/", "SO:0000316">>

\* task + "?limit={}&page={}".format(limit, page)
PageUri(task, page) ==
    task \o <<"?", "limit=">> \o Format(limit) \o <<"&", "page=">> \o Format(page)

\* A faulty variant of ceil_div: the quotient is rounded down.
ceil_div_floor(nom, d) == nom \div d

\* math.ceil(nom / limit)
ceil_div(nom, d) == IF nom % d = 0 THEN nom \div d ELSE (nom \div d) + 1

FaultyUri == Item(1)

Webs ==
    { [total |-> FALSE, n |-> 0,   fault |-> "none",    backlink |-> FALSE],
      [total |-> TRUE,  n |-> 0,   fault |-> "none",    backlink |-> FALSE],
      [total |-> TRUE,  n |-> 26,  fault |-> "none",    backlink |-> FALSE],
      [total |-> TRUE,  n |-> 200, fault |-> "none",    backlink |-> FALSE],
      [total |-> TRUE,  n |-> 200, fault |-> "none",    backlink |-> TRUE],
      [total |-> TRUE,  n |-> 200, fault |-> "notjson", backlink |-> FALSE],
      [total |-> TRUE,  n |-> 200, fault |-> "error",   backlink |-> FALSE],
      [total |-> TRUE,  n |-> 201, fault |-> "notjson", backlink |-> FALSE] }

\* The statements a collection document carries besides its members.
CollectionHeader(w, u) ==
    { <<URIRef(u), rdf_type, URIRef(External)>>,
      <<URIRef(u), hydra_PartialCollectionView, URIRef(Root \o <<"?", "page=", "1">>)>>,
      <<BNode(<<"view">>), rdf_type, tmp_PartialCollectionView>> }
    \cup (IF w.total
          THEN {<<URIRef(u), hydra_totalItems, Literal(Format(w.n))>>}
          ELSE {})

\* The number of pages the site lists its n items on.
SitePages(w) == (w.n + limit - 1) \div limit

\* The collection with a query string of the caller's: its first page.
QueryRoot == Root \o <<"?", "page=", "1">>

\* The page number the site reads from the query string of `u` (the last
\* page= parameter), or 0 when `u` is no page of the collection.
PageNumber(w, u) ==
    IF \E k \in 1..SitePages(w) : u \in {PageUri(Root, k), PageUri(QueryRoot, k)}
    THEN CHOOSE k \in 1..SitePages(w) : u \in {PageUri(Root, k), PageUri(QueryRoot, k)}
    ELSE IF u = QueryRoot /\ SitePages(w) >= 1 THEN 1
    ELSE 0

\* The document the site serves at `u`, as the JSON body spells it: the
\* site writes item links with the https scheme and percent-encodes labels.
Document(w, u) ==
    IF u = Root THEN CollectionHeader(w, u)
    ELSE IF PageNumber(w, u) > 0 THEN
        LET k == PageNumber(w, u)
        IN  CollectionHeader(w, Root)
                \cup {<<URIRef(Root), hydra_member,
                        URIRef(<<CONTENT_HTTPS>> \o Tail(Item(k)))>>}
    ELSE IF u = QueryRoot THEN CollectionHeader(w, Root)
    ELSE IF \E k \in 1..SitePages(w) : u = Item(k) THEN
        LET k == CHOOSE j \in 1..SitePages(w) : u = Item(j)
        IN  {<<URIRef(u), rdfs_label, Literal(<<"CDS", "%20">> \o Format(k))>>}
                \cup (IF w.backlink
                      THEN {<<URIRef(u), schema_isPartOf, URIRef(PageUri(Root, k))>>}
                      ELSE {})
    ELSE {<<URIRef(u), rdfs_label, Literal(<<"leaf">>)>>}

\* requests.get(page, timeout=600) followed by response.json().
Response(w, u) ==
    IF u = FaultyUri /\ w.fault = "error" THEN [status |-> "error", doc |-> {}]
    ELSE IF u = FaultyUri /\ w.fault = "notjson" THEN [status |-> "notjson", doc |-> {}]
    ELSE [status |-> "ok", doc |-> Document(w, u)]

-----------------------------------------------------------------------------
(* get_graph                                                               *)

\* jsn.replace('https://pflu', 'http://pflu') on one token.
replace_https(tok) == IF tok = CONTENT_HTTPS THEN CONTENT ELSE tok
\* urllib.parse.unquote on one token.
unquote(tok) == IF tok = "%20" THEN " " ELSE tok

NormalizeText(s) == [i \in 1..Len(s) |-> unquote(replace_https(s[i]))]
NormalizeTerm(t) == [kind |-> t.kind, val |-> NormalizeText(t.val)]

\* grph.parse(data=jsn, format='json-ld') on the normalized body.
ParseJsonLd(doc) ==
    { <<NormalizeTerm(t[1]), NormalizeTerm(t[2]), NormalizeTerm(t[3])>> : t \in doc }

\* A faulty variant of get_graph: every exception is swallowed like a decode failure.
get_graph_swallow(page, serialize) ==
    LET response == Response(web, page.val)
    IN  IF response.status = "ok"
        THEN [raised |-> FALSE, grph |-> ParseJsonLd(response.doc), wrote |-> serialize]
        ELSE [raised |-> FALSE, grph |-> {}, wrote |-> serialize]

\* get_graph(page, serialize): the fetched Graph, or the exception it
\* re-raises.  A body that is not JSON leaves the Graph empty.
get_graph(page, serialize) ==
    LET response == Response(web, page.val)
    IN  IF response.status = "error"
        THEN [raised |-> TRUE, grph |-> {}, wrote |-> FALSE]
        ELSE IF response.status = "notjson"
        THEN [raised |-> FALSE, grph |-> {}, wrote |-> serialize]
        ELSE [raised |-> FALSE, grph |-> ParseJsonLd(response.doc), wrote |-> serialize]

\* page.split("://")[-1].replace("/", "__") on one token.
ofname_token(tok) ==
    IF tok = CONTENT THEN "pflu.evolbio.mpg.de__web-services__content__"
    ELSE IF tok = CONTENT_HTTPS THEN "pflu.evolbio.mpg.de__web-services__content__"
    ELSE IF tok = "v0.1/" THEN "v0.1__"
    ELSE IF tok = "/" THEN "__"
    ELSE tok

\* Line 302: the name of the file get_graph(page, True) writes.
ofname(page) == [i \in 1..Len(page) |-> ofname_token(page[i])] \o <<".ttl">>

-----------------------------------------------------------------------------
(* recursively_add                                                         *)

\* A faulty variant of collect_links: the two predicates are not skipped.
collect_links_all(gloc) ==
    { str(t[3]) : t \in { x \in gloc : startswith(x[3].val, CONTENT) } }

\* The loop over the terms of gloc (lines 187-195).  The list
\* collected_tasks is kept as a set: parse() only ever uses it through
\* set(tasks).
collect_links(gloc) ==
    { str(t[3]) : t \in { x \in gloc :
                            /\ x[2] # hydra_PartialCollectionView
                            /\ x[2] # hydra_totalItems
                            /\ startswith(x[3].val, CONTENT) } }

\* A faulty variant of is_paginating: no task counts as paginated.
is_paginating_never(task) == FALSE

\* len(task.split("&")) > 1
is_paginating(task) == "&" \in Range(task.val)

\* [URIRef(task + "?limit={}&page={}".format(limit, page)) for page in pages]
page_tasks(task, nom) ==
    { URIRef(PageUri(task.val, page)) : page \in 1..ceil_div(nom, limit) }

\* The tasks recursively_add(task) returns with `member` as members[0].
expand(task, links, gloc, member) ==
    LET nom == toPython(member.val)
    IN  IF nom = 0 THEN links ELSE links \cup page_tasks(task, nom)

\* The results recursively_add(task) can give: one, unless the document
\* carries several total-item counts (members[0] is then any of them).
\* Line 183 calls get_graph(task): `serialize` keeps its default, False.
recursively_add(task) ==
    LET fetched == get_graph(task, FALSE)
        gloc == fetched.grph
        links == collect_links(gloc)
        members == { t[3] : t \in { x \in gloc : x[2] = hydra_totalItems } }
        written == IF fetched.wrote THEN {ofname(task.val)} ELSE {}
        returns(collected_tasks) ==
            [raised |-> FALSE, tasks |-> collected_tasks, gloc |-> gloc, files |-> written]
    IN  IF fetched.raised
        THEN {[raised |-> TRUE, tasks |-> {}, gloc |-> {}, files |-> {}]}
        ELSE IF is_paginating(task) THEN {returns(links)}
        ELSE IF members = {} THEN {returns(links)}
        ELSE { returns(expand(task, links, gloc, member)) : member \in members }

-----------------------------------------------------------------------------
(* cleanup                                                                 *)

\* Whether the statement t matches the pattern (None is a wildcard).
matches(t, terms) ==
    \A i \in 1..3 : terms[i] = None \/ terms[i] = t[i]

\* A faulty variant of remove_terms: the loop ends after the first removal.
remove_terms_first(grph, terms) ==
    IF \E t \in grph : matches(t, terms)
    THEN grph \ {CHOOSE t \in grph : matches(t, terms)}
    ELSE grph

\* remove_terms(grph, terms): grph without the statements matching terms.
remove_terms(grph, terms) == { t \in grph : ~matches(t, terms) }

\* A faulty variant of cleanup: the third pattern is left out.
cleanup_two(grph) ==
    remove_terms(
        remove_terms(grph, <<None, None, tmp_PartialCollectionView>>),
        <<None, None, pflu_PartialCollectionView>>)

cleanup(grph) ==
    remove_terms(
        remove_terms(
            remove_terms(grph, <<None, None, tmp_PartialCollectionView>>),
            <<None, None, pflu_PartialCollectionView>>),
        <<None, hydra_PartialCollectionView, None>>)

\* The `count` of line 260: one for every statement removed.
remove_count(grph, terms) ==
    Cardinality(grph) - Cardinality(remove_terms(grph, terms))

\* The three debug messages of a cleanup(grph) call (line 262).
cleanup_log(grph) ==
    LET p1 == <<None, None, tmp_PartialCollectionView>>
        p2 == <<None, None, pflu_PartialCollectionView>>
        p3 == <<None, hydra_PartialCollectionView, None>>
        g1 == remove_terms(grph, p1)
        g2 == remove_terms(g1, p2)
    IN  << [terms |-> p1, count |-> remove_count(grph, p1)],
           [terms |-> p2, count |-> remove_count(g1, p2)],
           [terms |-> p3, count |-> remove_count(g2, p3)] >>

-----------------------------------------------------------------------------
(* The inputs of a run.                                                    *)

\* What the caller may pass as, or assign to, entry_point.
EntryPoints == {Root}

\* A Graph the caller may pass to the constructor; it holds a statement
\* that cleanup() removes.
CallerGraph ==
    { <<URIRef(<<CONTENT, "v0.1/", "TMRNA">>), rdfs_label, Literal(<<"tmRNA">>)>>,
      <<BNode(<<"b0">>), rdf_type, pflu_PartialCollectionView>> }

\* graph=None
NoGraph == [given |-> FALSE, type |-> "NoneType", triples |-> {}]

\* The constructor's argument `graph`: None, the caller's Graph, or an
\* object that is not a Graph.
GraphArgs == { NoGraph,
               [given |-> TRUE, type |-> "Graph", triples |-> CallerGraph],
               [given |-> TRUE, type |-> "dict", triples |-> {}] }

\* A Python bool.
Bool(b) == [kind |-> "bool", val |-> IF b THEN <<"True">> ELSE <<"False">>]

\* The constructor's argument `entry_point`: None, a URIRef, a str, an
\* rdflib Literal (a subclass of str), or an int.
EntryArgs ==
    {None} \cup UNION { {URIRef(u), str(URIRef(u)), Literal(u)} : u \in EntryPoints }
           \cup {[kind |-> "int", val |-> <<"5">>]}

\* The constructor's argument `serialize_nodes` in a library call: left
\* out, False, or a str.  True is passed by the command line (-s), and by
\* the library calls of SerializeSpec.
SerializeArgs == {None, Bool(FALSE), [kind |-> "str", val |-> <<"yes">>]}

\* The constructor's argument `client`; `scheduler` keeps its default, and
\* a scheduler is listening there.
ClientArgs == {None, [kind |-> "Client", val |-> <<>>],
               [kind |-> "str", val |-> <<"127.0.0.1:8786">>]}

\* The arguments of a constructor call when all are left out.
NoArgs == [entry_point |-> None, graph |-> NoGraph, serialize_nodes |-> None,
           client |-> None]

\* The --out paths of a command-line run: the default, and a path in a
\* directory that does not exist.
OutPaths == {<<"graph.ttl">>, <<"missing/", "graph.ttl">>}
\* Whether g.serialize(path) can write the file.
writable(path) == Len(path) = 1

\* No command-line run: the parser is used as a library.
NoCli == [out |-> <<>>, logged |-> "none", exit_code |-> -1]
InCli == cli.out # <<>>

\* The triple patterns remove_terms() is called with.
Patterns ==
    { <<None, None, tmp_PartialCollectionView>>,
      <<None, rdf_type, URIRef(External)>>,
      <<None, rdf_type, None>>,
      <<URIRef(Root), None, None>>,
      <<URIRef(Root), hydra_PartialCollectionView, URIRef(Root \o <<"?", "page=", "1">>)>>,
      <<None, None, None>> }

\* The statements of the Graphs cleanup() and remove_terms() are applied to.
GraphUniverse ==
    CallerGraph
    \cup CollectionHeader([total |-> TRUE, n |-> 26], Root)
    \cup { <<BNode(<<"b1">>), rdf_type, tmp_PartialCollectionView>>,
           <<BNode(<<"b1">>), hydra_PartialCollectionView, pflu_PartialCollectionView>>,
           <<URIRef(Root), rdf_type, hydra_PartialCollectionView>> }

-----------------------------------------------------------------------------
(* RecursiveJSONLDParser                                                   *)

\* A faulty variant of graph_setter: the caller's Graph is kept without a copy.
graph_setter_alias(value) == "g"

\* The graph setter: the object self.__graph refers to.  deepcopy makes a
\* Graph of the parser's own ("own"); "g" is the caller's object.
graph_setter(value) == "own"

\* isinstance(value, Graph) fails (line 83); None stands for a new Graph.
graph_setter_raises(value) == value.given /\ value.type # "Graph"

\* A faulty variant of serialize_nodes_setter: the type is not checked.
serialize_nodes_setter_any(value) ==
    [raised |-> FALSE, value |-> (value.val = <<"True">>)]

\* The serialize_nodes setter (lines 64-71): whether it raises TypeError,
\* and the value self.__serialize_nodes gets.
serialize_nodes_setter(value) ==
    LET v == IF value = None THEN Bool(FALSE) ELSE value
    IN  IF v.kind # "bool"
        THEN [raised |-> TRUE, value |-> FALSE]
        ELSE [raised |-> FALSE, value |-> (v.val = <<"True">>)]

\* isinstance(value, str): rdflib's URIRef, Literal and BNode are
\* subclasses of str.
isinstance_str(value) == value.kind \in {"str", "URIRef", "Literal", "BNode"}

\* The entry_point setter raises TypeError (lines 110-114).
entry_point_raises(value) == value # None /\ ~isinstance_str(value)

\* Lines 45-49: a client that is not a dask Client.
client_raises(value) == value # None /\ value.kind # "Client"

\* The entry_point setter's effect on self.__tasks.
entry_point_setter(the_tasks, value) ==
    IF value = None THEN the_tasks ELSE Append(the_tasks, URIRef(value.val))

\* Line 139: the full chunks of the task list.
task_chunks(the_tasks) ==
    [s \in 1..(Len(the_tasks) \div chunk_length) |->
        SubSeq(the_tasks, chunk_length * (s - 1) + 1, chunk_length * s)]

\* A faulty variant of gathered_tasks: line 149 is left out, the old list is kept.
gathered_tasks_keep(the_results) ==
    Range(tasks) \cup UNION { the_results[i].value.tasks : i \in 1..Len(the_results) }

\* A faulty variant of gathered_tasks: only the page tasks are kept.
gathered_tasks_no_links(the_results) ==
    { t \in UNION { the_results[i].value.tasks : i \in 1..Len(the_results) } :
        t.kind = "URIRef" }

\* Lines 149-151: the tasks the gathered results return.
gathered_tasks(the_results) ==
    UNION { the_results[i].value.tasks : i \in 1..Len(the_results) }

\* A faulty variant of gathered_graph: the results replace the accumulated graph.
gathered_graph_overwrite(graph, the_results) ==
    UNION { the_results[i].value.gloc : i \in 1..Len(the_results) }

\* A faulty variant of gathered_graph: the last result is not merged.
gathered_graph_skip_last(graph, the_results) ==
    graph \cup UNION { the_results[i].value.gloc : i \in 1..(Len(the_results) - 1) }

\* Line 152: graph += result[1], for every result.
gathered_graph(graph, the_results) ==
    graph \cup UNION { the_results[i].value.gloc : i \in 1..Len(the_results) }

\* A faulty variant of gather_ready: the results are taken as they are.
gather_ready_any(the_results) == TRUE

\* Line 150: client.gather(results) returns when every future has finished.
gather_ready(the_results) ==
    \A i \in 1..Len(the_results) : the_results[i].state = "finished"

\* A faulty variant of marked: the chunk is not recorded.
marked_none(parsed, the_chunk) == parsed

\* Line 146: parsed_pages += [t for t in chunk]
marked(parsed, the_chunk) == parsed \o the_chunk

\* Line 156: set(tasks).difference(set(parsed_pages))
new_tasks(the_tasks, parsed) == the_tasks \ Range(parsed)

RECURSIVE SetToSeq(_)
SetToSeq(S) ==
    IF S = {} THEN <<>>
    ELSE LET x == CHOOSE y \in S : TRUE IN <<x>> \o SetToSeq(S \ {x})

\* list(S): the orders Python may give the elements of the set S.  Only
\* the split into the full chunks and the rest decides what parse() does
\* with the list, so one order is kept for each choice of the rest.
list_of_set(S) ==
    { SetToSeq(S \ rest) \o SetToSeq(rest) :
        rest \in { r \in SUBSET S : Cardinality(r) = Cardinality(S) % chunk_length } }

Futures(the_chunk) ==
    [i \in 1..Len(the_chunk) |-> [task |-> the_chunk[i], state |-> "pending",
                                   value |-> [raised |-> FALSE, tasks |-> {}, gloc |-> {},
                                              files |-> {}]]]

Init ==
    /\ pc = "start"
    /\ web \in Webs
    /\ ctor_args = NoArgs
    /\ exc = "none"
    /\ cli = NoCli
    /\ graph_arg = NoGraph
    /\ heap = [g |-> {}, own |-> {}]
    /\ self_graph = "own"
    /\ self_serialize_nodes = FALSE
    /\ self_entry_point = None
    /\ self_tasks = <<>>
    /\ parsed_pages = <<>>
    /\ tasks = <<>>
    /\ chunk = 1
    /\ results = <<>>
    /\ submitted = <<>>
    /\ files = {}
    /\ outcome = "none"
    /\ cleaned = FALSE
    /\ removed = <<>>
    /\ first_len = -1
    /\ calls = 0

\* The caller evaluates RecursiveJSONLDParser(entry_point, graph,
\* serialize_nodes, client): the arguments are bound, __init__ is entered.
New(entry_point, graph, serialize_nodes, client) ==
    /\ pc = "start"
    /\ pc' = "init"
    /\ ctor_args' = [entry_point |-> entry_point, graph |-> graph,
                     serialize_nodes |-> serialize_nodes, client |-> client]
    /\ UNCHANGED <<web, exc, cli, graph_arg, heap, self_graph, self_serialize_nodes,
                   self_entry_point, self_tasks, parsed_pages, tasks, chunk, results,
                   submitted, files, outcome, cleaned, removed, first_len, calls>>

\* The command line `tripser URL [-o OUT] [-s]` (cli.py lines 17-26): the
\* parser is constructed from the url and the flag.
CliInvoke(url, out, serialize_nodes) ==
    /\ pc = "start"
    /\ pc' = "init"
    /\ cli' = [out |-> out, logged |-> "none", exit_code |-> -1]
    /\ ctor_args' = [entry_point |-> str(URIRef(url)), graph |-> NoGraph,
                     serialize_nodes |-> Bool(serialize_nodes), client |-> None]
    /\ UNCHANGED <<web, exc, graph_arg, heap, self_graph, self_serialize_nodes,
                   self_entry_point, self_tasks, parsed_pages, tasks, chunk, results,
                   submitted, files, outcome, cleaned, removed, first_len, calls>>

\* RecursiveJSONLDParser.__init__ (lines 21-56): the three setters in the
\* order of lines 41-43, then the client.  The first setter that raises
\* ends the construction: no parser exists then.
Construct ==
    /\ pc = "init"
    /\ ctor_args' = NoArgs
    /\ IF \/ graph_setter_raises(ctor_args.graph)
          \/ serialize_nodes_setter(ctor_args.serialize_nodes).raised
          \/ entry_point_raises(ctor_args.entry_point)
          \/ client_raises(ctor_args.client)
       THEN /\ pc' = "failed"
            /\ exc' = "TypeError"
            /\ cli' = IF InCli THEN [cli EXCEPT !.exit_code = 1] ELSE cli
            /\ UNCHANGED <<graph_arg, heap, self_graph, self_serialize_nodes,
                           self_entry_point, self_tasks, parsed_pages>>
       ELSE /\ pc' = "idle"
            /\ graph_arg' = ctor_args.graph
            /\ heap' = [g |-> ctor_args.graph.triples, own |-> ctor_args.graph.triples]
            /\ self_graph' = IF ctor_args.graph.given
                             THEN graph_setter(ctor_args.graph) ELSE "own"
            /\ self_serialize_nodes' = serialize_nodes_setter(ctor_args.serialize_nodes).value
            /\ self_entry_point' = IF ctor_args.entry_point = None THEN None
                                   ELSE URIRef(ctor_args.entry_point.val)
            /\ self_tasks' = entry_point_setter(<<>>, ctor_args.entry_point)
            /\ parsed_pages' = <<>>
            /\ UNCHANGED <<exc, cli>>
    /\ UNCHANGED <<web, tasks, chunk, results, submitted, files, outcome, cleaned,
                   removed, first_len, calls>>

\* parser.entry_point = value (lines 102-117), before parse() is called.
SetEntryPoint(value) ==
    /\ pc = "idle"
    /\ ~InCli
    /\ outcome = "none"
    /\ value # None => Len(self_tasks) < MaxAssign
    /\ self_entry_point' = IF value = None THEN None ELSE URIRef(value.val)
    /\ self_tasks' = entry_point_setter(self_tasks, value)
    /\ UNCHANGED <<pc, web, ctor_args, exc, cli, graph_arg, heap, self_graph,
                   self_serialize_nodes, parsed_pages, tasks, chunk, results,
                   submitted, files, outcome, cleaned, removed, first_len, calls>>

\* parser.parse() is called (lines 125-131).
ParseCall ==
    /\ pc = "idle"
    /\ outcome = "none"
    /\ pc' = "while"
    /\ tasks' = self_tasks
    /\ results' = <<>>
    /\ calls' = calls + 1
    /\ UNCHANGED <<web, ctor_args, exc, cli, graph_arg, heap, self_graph,
                   self_serialize_nodes, self_entry_point, self_tasks, parsed_pages,
                   chunk, submitted, files, outcome, cleaned, removed, first_len>>

\* Line 133 with tasks left: lines 135-140 start a wave.
WaveStart ==
    /\ pc = "while"
    /\ Len(tasks) > 0
    /\ results' = <<>>
    /\ chunk' = 1
    /\ pc' = IF Len(task_chunks(tasks)) = 0 THEN "gather" ELSE "submit"
    /\ UNCHANGED <<web, ctor_args, exc, cli, graph_arg, heap, self_graph,
                   self_serialize_nodes, self_entry_point, self_tasks, parsed_pages,
                   tasks, submitted, files, outcome, cleaned, removed, first_len, calls>>

\* Line 133 with no task left: parse() returns.
ParseReturn ==
    /\ pc = "while"
    /\ Len(tasks) = 0
    /\ pc' = "idle"
    /\ outcome' = "returned"
    /\ results' = <<>>
    /\ UNCHANGED <<web, ctor_args, exc, cli, graph_arg, heap, self_graph,
                   self_serialize_nodes, self_entry_point, self_tasks, parsed_pages,
                   tasks, chunk, submitted, files, cleaned, removed, first_len, calls>>

\* Line 142: the tasks of one chunk are submitted to the client.
SubmitChunk ==
    /\ pc = "submit"
    /\ results' = results \o Futures(task_chunks(tasks)[chunk])
    /\ submitted' = submitted \o task_chunks(tasks)[chunk]
    /\ pc' = "sleep"
    /\ UNCHANGED <<web, ctor_args, exc, cli, graph_arg, heap, self_graph,
                   self_serialize_nodes, self_entry_point, self_tasks, parsed_pages,
                   tasks, chunk, files, outcome, cleaned, removed, first_len, calls>>

\* Lines 143-146: after the sleep the chunk is recorded in parsed_pages.
MarkChunk ==
    /\ pc = "sleep"
    /\ parsed_pages' = marked(parsed_pages, task_chunks(tasks)[chunk])
    /\ chunk' = chunk + 1
    /\ pc' = IF chunk = Len(task_chunks(tasks)) THEN "gather" ELSE "submit"
    /\ UNCHANGED <<web, ctor_args, exc, cli, graph_arg, heap, self_graph,
                   self_serialize_nodes, self_entry_point, self_tasks, tasks, results,
                   submitted, files, outcome, cleaned, removed, first_len, calls>>

\* The futures a worker thread is computing: the cluster starts futures in
\* the order of their submission, NumWorkers at a time.
Running ==
    { i \in 1..Len(results) :
        /\ results[i].state = "pending"
        /\ Cardinality({ j \in 1..(i - 1) : results[j].state = "pending" }) < NumWorkers }

\* A worker finishes recursively_add(task) for the future i; the files the
\* call wrote are on disk.
WorkerComplete(i) ==
    /\ i \in Running
    /\ \E r \in recursively_add(results[i].task) :
          /\ results' = [results EXCEPT ![i] =
                            [task |-> results[i].task,
                             state |-> IF r.raised THEN "error" ELSE "finished",
                             value |-> r]]
          /\ files' = files \cup r.files
    /\ UNCHANGED <<pc, web, ctor_args, exc, cli, graph_arg, heap, self_graph,
                   self_serialize_nodes, self_entry_point, self_tasks, parsed_pages,
                   tasks, chunk, submitted, outcome, cleaned, removed, first_len, calls>>

\* Lines 149-156: every future has a result; they are merged and the next
\* task list is computed.
Gather ==
    /\ pc = "gather"
    /\ gather_ready(results)
    /\ heap' = [heap EXCEPT ![self_graph] = gathered_graph(@, results)]
    /\ tasks' \in list_of_set(new_tasks(gathered_tasks(results), parsed_pages))
    /\ results' = <<>>
    /\ pc' = "while"
    /\ UNCHANGED <<web, ctor_args, exc, cli, graph_arg, self_graph,
                   self_serialize_nodes, self_entry_point, self_tasks, parsed_pages,
                   chunk, submitted, files, outcome, cleaned, removed, first_len, calls>>

\* Line 150: client.gather re-raises the exception of a failed future and
\* parse() lets it through.
GatherRaise ==
    /\ pc = "gather"
    /\ \E i \in 1..Len(results) : results[i].state = "error"
    /\ pc' = "idle"
    /\ outcome' = "raised"
    /\ tasks' = <<>>
    /\ results' = <<>>
    /\ UNCHANGED <<web, ctor_args, exc, cli, graph_arg, heap, self_graph,
                   self_serialize_nodes, self_entry_point, self_tasks, parsed_pages,
                   chunk, submitted, files, cleaned, removed, first_len, calls>>

\* cleanup(parser.graph), after parse() has returned.
Cleanup ==
    /\ pc = "idle"
    /\ outcome = "returned"
    /\ ~cleaned
    /\ heap' = [heap EXCEPT ![self_graph] = cleanup(@)]
    /\ removed' = cleanup_log(heap[self_graph])
    /\ cleaned' = TRUE
    /\ UNCHANGED <<pc, web, ctor_args, exc, cli, graph_arg, self_graph,
                   self_serialize_nodes, self_entry_point, self_tasks, parsed_pages,
                   tasks, chunk, results, submitted, files, outcome, first_len, calls>>

\* The rest of cli(): g.serialize(out) and the success message (lines
\* 32-35), or the handler of lines 36-39 when parse() or the serialization
\* raised; then the command ends.  The handler re-raises only at level DEBUG.
CliEnd ==
    /\ InCli
    /\ pc = "idle"
    /\ cleaned \/ outcome = "raised"
    /\ pc' = "exit"
    /\ LET failed == outcome = "raised" \/ ~writable(cli.out)
       IN  /\ files' = IF failed THEN files ELSE files \cup {cli.out}
           /\ cli' = [cli EXCEPT
                        !.logged = IF failed THEN "error" ELSE "info",
                        !.exit_code = IF failed /\ logger_level = "DEBUG" THEN 1 ELSE 0]
    /\ UNCHANGED <<web, ctor_args, exc, graph_arg, heap, self_graph,
                   self_serialize_nodes, self_entry_point, self_tasks, parsed_pages,
                   tasks, chunk, results, submitted, outcome, cleaned, removed, first_len, calls>>

Next ==
    \/ \E e \in EntryArgs, g \in GraphArgs, s \in SerializeArgs, c \in ClientArgs :
          New(e, g, s, c)
    \/ \E u \in EntryPoints, o \in OutPaths, s \in BOOLEAN : CliInvoke(u, o, s)
    \/ Construct
    \/ \E v \in {None} \cup {URIRef(u) : u \in EntryPoints} : SetEntryPoint(v)
    \/ ParseCall
    \/ WaveStart
    \/ ParseReturn
    \/ SubmitChunk
    \/ MarkChunk
    \/ \E i \in 1..Len(results) : WorkerComplete(i)
    \/ Gather
    \/ GatherRaise
    \/ Cleanup
    \/ CliEnd

Spec == Init /\ [][Next]_vars

\* parse() runs on, and every fetch ends (requests.get has a timeout), so
\* every step of parse() and of the workers that can be taken is taken.
ParseStep ==
    \/ WaveStart \/ ParseReturn \/ SubmitChunk \/ MarkChunk \/ Gather \/ GatherRaise
    \/ \E i \in 1..Len(results) : WorkerComplete(i)

FairSpec == Spec /\ WF_vars(ParseStep)

-----------------------------------------------------------------------------
(* Library calls with serialize_nodes=True as well.                        *)

SerializeNext ==
    \/ Next
    \/ \E e \in EntryArgs, g \in GraphArgs, c \in ClientArgs : New(e, g, Bool(TRUE), c)

SerializeSpec == Init /\ [][SerializeNext]_vars

-----------------------------------------------------------------------------
(* The cleanup functions on their own: cleanup() and remove_terms() are    *)
(* applied, any number of times, to the graph of a parser that was given a *)
(* Graph and no entry point and whose parse() has returned.                *)

CleanupInit ==
    /\ pc = "idle"
    /\ web = [total |-> FALSE, n |-> 0, fault |-> "none", backlink |-> FALSE]
    /\ ctor_args = NoArgs
    /\ exc = "none"
    /\ cli = NoCli
    /\ \E G \in SUBSET GraphUniverse :
          /\ graph_arg = [given |-> TRUE, type |-> "Graph", triples |-> G]
          /\ heap = [g |-> G, own |-> G]
    /\ self_graph = "own"
    /\ self_serialize_nodes = FALSE
    /\ self_entry_point = None
    /\ self_tasks = <<>>
    /\ parsed_pages = <<>>
    /\ tasks = <<>>
    /\ chunk = 1
    /\ results = <<>>
    /\ submitted = <<>>
    /\ files = {}
    /\ outcome = "returned"
    /\ cleaned = FALSE
    /\ removed = <<>>
    /\ first_len = -1
    /\ calls = 1

\* cleanup(parser.graph) is called on a graph that was cleaned before.
CleanupAgain ==
    /\ pc = "idle"
    /\ outcome = "returned"
    /\ cleaned
    /\ heap' = [heap EXCEPT ![self_graph] = cleanup(@)]
    /\ removed' = cleanup_log(heap[self_graph])
    /\ UNCHANGED <<pc, web, ctor_args, exc, cli, graph_arg, self_graph,
                   self_serialize_nodes, self_entry_point, self_tasks, parsed_pages,
                   tasks, chunk, results, submitted, files, outcome, cleaned, first_len, calls>>

\* remove_terms(parser.graph, terms) is called.
RemoveTerms(terms) ==
    /\ pc = "idle"
    /\ outcome = "returned"
    /\ heap' = [heap EXCEPT ![self_graph] = remove_terms(@, terms)]
    /\ removed' = <<[terms |-> terms, count |-> remove_count(heap[self_graph], terms)]>>
    /\ UNCHANGED <<pc, web, ctor_args, exc, cli, graph_arg, self_graph,
                   self_serialize_nodes, self_entry_point, self_tasks, parsed_pages,
                   tasks, chunk, results, submitted, files, outcome, cleaned, first_len, calls>>

CleanupNext ==
    \/ Cleanup
    \/ CleanupAgain
    \/ \E terms \in Patterns : RemoveTerms(terms)

CleanupSpec == CleanupInit /\ [][CleanupNext]_vars

-----------------------------------------------------------------------------
(* Two crawls: after the first parser's parse() and cleanup(), a second    *)
(* parser is made with the same arguments and the same entry points, and   *)
(* crawls the same data source (test_graph_len_consistent).                *)

\* The second parser is constructed; len() of the first graph is kept.
SecondParser ==
    /\ pc = "idle"
    /\ ~InCli
    /\ outcome = "returned"
    /\ cleaned
    /\ first_len = -1
    /\ first_len' = Cardinality(heap[self_graph])
    /\ heap' = [g |-> graph_arg.triples, own |-> graph_arg.triples]
    /\ parsed_pages' = <<>>
    /\ tasks' = <<>>
    /\ submitted' = <<>>
    /\ files' = {}
    /\ outcome' = "none"
    /\ cleaned' = FALSE
    /\ removed' = <<>>
    /\ calls' = 0
    /\ UNCHANGED <<pc, web, ctor_args, exc, cli, graph_arg, self_graph,
                   self_serialize_nodes, self_entry_point, self_tasks, chunk, results>>

\* The steps of the second crawl: parse() and cleanup().
SecondCrawl ==
    /\ first_len # -1
    /\ \/ ParseCall \/ Cleanup \/ ParseStep

RepeatNext ==
    \/ first_len = -1 /\ Next
    \/ SecondParser
    \/ SecondCrawl

RepeatSpec == Init /\ [][RepeatNext]_vars

-----------------------------------------------------------------------------
(* Properties.                                                             *)

Graph == heap[self_graph]
InParse == pc \in {"while", "submit", "sleep", "gather"}
Done(i) == results[i].state # "pending"
\* The text "?limit=25&page=" that the pagination expander appends.
PageSuffix == <<"?", "limit=", "2", "5", "&", "page=">>
\* How many times the page suffix occurs in the text s.
SuffixCount(s) ==
    Cardinality({ j \in 1..Len(s) :
                    j + 5 <= Len(s) /\ SubSeq(s, j, j + 5) = PageSuffix })
\* The page tasks among the tasks a result returns: the links are str.
PagesOf(value) == { t \in value.tasks : t.kind = "URIRef" }
\* The total-item counts a fetched Graph declares.
CountsOf(gloc) == { toPython(t[3].val) : t \in { x \in gloc : x[2] = hydra_totalItems } }
\* The least number of pages of 25 that hold n items.
LeastPages(n) == CHOOSE m \in 0..n : 25 * m >= n /\ (m = 0 \/ 25 * (m - 1) < n)

\* C1: no Task identifier (the text of the URI) is submitted to
\* recursively_add more than once.
C1_AtMostOnceFetch ==
    \A i, j \in 1..Len(submitted) :
        i # j => submitted[i].val # submitted[j].val

\* C2: when the submissions of a wave are over, every Task that was in the
\* Frontier at the start of the wave has been submitted in it.
C2_NoPendingTaskLost ==
    pc = "gather" =>
        \A k \in 1..Len(tasks) : \E i \in 1..Len(results) : results[i].task = tasks[k]

\* C3: after parse() has returned on a parser with a single entry point
\* whose document has a statement, the parser's graph holds the statements
\* of that document.
C3_EntryDocumentInGraph ==
    (outcome = "returned" /\ ~cleaned /\ Len(self_tasks) = 1
        /\ get_graph(self_tasks[1], FALSE).grph # {})
    => get_graph(self_tasks[1], FALSE).grph \subseteq Graph

\* C4: parse() terminates: whenever parse() is running, it later returns
\* or raises.
C4_ParseTerminates == [](InParse => <>(pc = "idle"))

C4_Witness ==
    outcome = "returned" /\ Len(parsed_pages) >= 3 * chunk_length

\* C5: for a Task that is not paginated, recursively_add returns no page
\* Task when the document declares no total-item count, and for a declared
\* count N exactly the Tasks task + "?limit=25&page=k", k = 1..ceil(N/25)
\* (none for N = 0).
C5_PaginationCorrect ==
    \A i \in 1..Len(results) :
        (results[i].state = "finished" /\ "&" \notin Range(results[i].task.val)) =>
            LET counts == CountsOf(results[i].value.gloc)
                pages == PagesOf(results[i].value)
            IN  /\ counts = {} => pages = {}
                /\ \A n \in counts :
                      pages = { URIRef(results[i].task.val \o PageSuffix \o Format(k)) :
                                  k \in 1..LeastPages(n) }

C5_Witness ==
    \E i \in 1..Len(results) :
        /\ results[i].state = "finished"
        /\ "&" \notin Range(results[i].task.val)
        /\ \E n \in CountsOf(results[i].value.gloc) : n > limit /\ n % limit # 0

\* C6: a Task made by the pagination expander yields no page Task when it
\* is fetched, and no Task carries the page suffix more than once.
C6_PageTasksTerminal ==
    /\ \A i \in 1..Len(results) :
          (results[i].state = "finished" /\ SuffixCount(results[i].task.val) > 0)
              => PagesOf(results[i].value) = {}
    /\ \A i \in 1..Len(submitted) : SuffixCount(submitted[i].val) <= 1

C6_Witness ==
    \E i \in 1..Len(results) :
        /\ results[i].state = "finished"
        /\ results[i].task.kind = "URIRef"
        /\ SuffixCount(results[i].task.val) = 1
        /\ \E n \in CountsOf(results[i].value.gloc) : n > 0

\* The Tasks the documents fetched so far have led to.
Discovered ==
    UNION { r.tasks : r \in UNION { recursively_add(submitted[i]) : i \in 1..Len(submitted) } }
NotJsonFetched ==
    \E i \in 1..Len(submitted) : Response(web, submitted[i].val).status = "notjson"

\* C7: a body that is not JSON gives an empty Graph and no exception, and
\* the crawl completes and submits every other discovered Task.
C7_MalformedResilience ==
    /\ \A i \in 1..Len(results) :
          (Done(i) /\ Response(web, results[i].task.val).status = "notjson")
              => results[i].state = "finished" /\ results[i].value.gloc = {}
    /\ (outcome = "returned" /\ NotJsonFetched) =>
          \A t \in Discovered : \E i \in 1..Len(submitted) : submitted[i].val = t.val

\* C8: a fetch that fails with a transport error makes its future fail;
\* parse() then raises at the gather, submits nothing more, and leaves the
\* accumulated Graph as the completed waves made it.
C8_FatalErrorPropagates ==
    /\ [](\A i \in 1..Len(results) :
            Done(i) => (results[i].state = "error"
                           <=> Response(web, results[i].task.val).status = "error"))
    /\ [][ /\ (pc = "gather" /\ pc' # "gather"
                  /\ \E i \in 1..Len(results) : results[i].state = "error")
              => (pc' = "idle" /\ outcome' = "raised" /\ heap' = heap
                     /\ submitted' = submitted)
           /\ outcome = "raised" => (submitted' = submitted /\ Graph \subseteq Graph')
         ]_vars

C8_Witness ==
    /\ outcome = "raised"
    /\ Len(parsed_pages) >= 3 * chunk_length
    /\ ParseJsonLd(Document(web, Root)) \subseteq Graph
    /\ Cardinality(Graph) > Cardinality(ParseJsonLd(Document(web, Root)))

\* C9: the accumulated Graph loses no statement, except by the cleanup()
\* that runs after the crawl.
C9_MonotonicAccumulation ==
    [][ (heap[self_graph] \subseteq heap'[self_graph'])
            \/ (pc = "idle" /\ outcome = "returned" /\ ~cleaned /\ cleaned') ]_vars

C9_Witness ==
    /\ pc = "while"
    /\ Len(parsed_pages) >= 2 * chunk_length
    /\ graph_arg.given
    /\ Cardinality(Graph) > Cardinality(graph_arg.triples) + 4

\* C10: the Graph the caller passed to the constructor stays as it was, and
\* after parse() the parser's graph holds every statement of it.
C10_DefensiveCopy ==
    graph_arg.given =>
        /\ heap["g"] = graph_arg.triples
        /\ (outcome = "returned" /\ ~cleaned) => graph_arg.triples \subseteq Graph

C10_Witness ==
    /\ graph_arg.given
    /\ outcome = "returned"
    /\ Len(parsed_pages) >= chunk_length
    /\ Graph # graph_arg.triples

-----------------------------------------------------------------------------
(* A larger collection: 400 items on 16 pages, so that a wave has two      *)
(* chunks.                                                                 *)

LoadWebs ==
    { [total |-> TRUE, n |-> 400, fault |-> "none",  backlink |-> FALSE],
      [total |-> TRUE, n |-> 400, fault |-> "error", backlink |-> FALSE] }

LoadInit ==
    /\ pc = "start"
    /\ web \in LoadWebs
    /\ ctor_args = NoArgs
    /\ exc = "none"
    /\ cli = NoCli
    /\ graph_arg = NoGraph
    /\ heap = [g |-> {}, own |-> {}]
    /\ self_graph = "own"
    /\ self_serialize_nodes = FALSE
    /\ self_entry_point = None
    /\ self_tasks = <<>>
    /\ parsed_pages = <<>>
    /\ tasks = <<>>
    /\ chunk = 1
    /\ results = <<>>
    /\ submitted = <<>>
    /\ files = {}
    /\ outcome = "none"
    /\ cleaned = FALSE
    /\ removed = <<>>
    /\ first_len = -1
    /\ calls = 0

LoadSpec == LoadInit /\ [][Next]_vars

-----------------------------------------------------------------------------
(* The entry point carries a query string: .../CDS?page=1.                 *)

QueryEntryArgs == {None, URIRef(QueryRoot)}

QueryNext ==
    \/ \E e \in QueryEntryArgs, g \in GraphArgs : New(e, g, None, None)
    \/ \E o \in OutPaths, s \in BOOLEAN : CliInvoke(QueryRoot, o, s)
    \/ Construct
    \/ \E v \in QueryEntryArgs : SetEntryPoint(v)
    \/ ParseCall
    \/ ParseStep
    \/ Cleanup
    \/ CliEnd

QuerySpec == Init /\ [][QueryNext]_vars

-----------------------------------------------------------------------------
(* parse() is called again on a parser whose parse() has returned.         *)

\* The number of parse() calls on one parser.
MaxParse == 2

ParseAgain ==
    /\ pc = "idle"
    /\ ~InCli
    /\ outcome = "returned"
    /\ calls < MaxParse
    /\ pc' = "while"
    /\ tasks' = self_tasks
    /\ results' = <<>>
    /\ outcome' = "none"
    /\ calls' = calls + 1
    /\ UNCHANGED <<web, ctor_args, exc, cli, graph_arg, heap, self_graph,
                   self_serialize_nodes, self_entry_point, self_tasks, parsed_pages,
                   chunk, submitted, files, cleaned, removed, first_len>>

ReparseNext ==
    \/ Next
    \/ ParseAgain

ReparseSpec == Init /\ [][ReparseNext]_vars

-----------------------------------------------------------------------------
(* Properties of cleanup() and remove_terms() (CleanupSpec).               *)

\* A step of a cleanup() call, and of a remove_terms() call: the call
\* leaves its messages in `removed`.
CleanupStep == Len(removed') = 3
RemoveTermsStep == Len(removed') = 1
\* The statements cleanup() is to remove.
Artifact(t) ==
    \/ t[3] = URIRef(<<"file:///tmp/", "PartialCollectionView">>)
    \/ t[3] = URIRef(<<CONTENT, "v0.1/", "PartialCollectionView">>)
    \/ t[2] = URIRef(<<HYDRA, "PartialCollectionView">>)
\* The statement t matches the pattern: every position is None or equal.
Matching(t, pattern) ==
    /\ pattern[1] = None \/ pattern[1] = t[1]
    /\ pattern[2] = None \/ pattern[2] = t[2]
    /\ pattern[3] = None \/ pattern[3] = t[3]

\* C11: cleanup() applied twice to a Graph gives the Graph that one
\* application gives, and a cleanup() of a Graph that was cleaned before
\* removes no statement (all its counts are 0).
C11_IdempotentCleanup ==
    /\ [](cleanup(cleanup(Graph)) = cleanup(Graph))
    /\ [][ (cleaned /\ CleanupStep) =>
              /\ heap' = heap
              /\ \A i \in 1..3 : removed'[i].count = 0 ]_vars

C11_Witness ==
    /\ cleaned
    /\ Len(removed) = 3
    /\ \A i \in 1..3 : removed[i].count = 0
    /\ Graph # {}
    /\ Cardinality(graph_arg.triples \ Graph) >= 2
    /\ Graph = { t \in graph_arg.triples : ~Artifact(t) }

\* C12: cleanup(g) leaves g without the statements whose object is one of
\* the two PartialCollectionView URIs or whose predicate is hydra
\* PartialCollectionView, and with every other statement; remove_terms(g,
\* pattern) removes the statements matching the pattern and no other, and
\* counts them.
C12_CleanupExact ==
    [][ /\ CleanupStep =>
              heap'[self_graph] = { t \in Graph : ~Artifact(t) }
        /\ RemoveTermsStep =>
              /\ heap'[self_graph] \subseteq Graph
              /\ \A t \in Graph :
                    t \in heap'[self_graph] <=> ~Matching(t, removed'[1].terms)
              /\ removed'[1].count = Cardinality(Graph \ heap'[self_graph])
      ]_vars

C12_Witness ==
    /\ cleaned
    /\ Len(removed) = 3
    /\ \A i \in 1..3 : removed[i].count > 0
    /\ Graph # {}

-----------------------------------------------------------------------------
(* Properties of two crawls (RepeatSpec).                                  *)

\* C13: when a second parser with the same entry points has crawled the
\* same data source and its graph was cleaned, the graph has as many
\* statements as the first parser's had.
C13_Repeatability ==
    (first_len # -1 /\ outcome = "returned" /\ cleaned)
        => Cardinality(Graph) = first_len

-----------------------------------------------------------------------------
(* Properties of the constructor, the command line and the options.        *)

\* The configuration the constructor is to reject.
InvalidConfig(a) ==
    \/ a.serialize_nodes.kind \notin {"None", "bool"}
    \/ a.entry_point.kind \notin {"None", "str", "URIRef", "Literal", "BNode"}
    \/ a.graph.given /\ a.graph.type # "Graph"

C15_NoEntryPointNoOp ==
    (self_entry_point = None /\ ~cleaned) =>
        /\ submitted = <<>>
        /\ parsed_pages = <<>>
        /\ Graph = graph_arg.triples

\* C16: a command-line run that ends after parse(), cleanup() or the
\* serialization raised has logged the error and has a nonzero exit code.
C16_CliFailureNonzero ==
    (InCli /\ pc = "exit" /\ (outcome = "raised" \/ cli.out \notin files)) =>
        /\ cli.logged = "error"
        /\ cli.exit_code # 0

\* The file name of the document at uri: the scheme is dropped, "/" becomes
\* "__", ".ttl" is appended.
NodeFile(uri) == ofname(uri)

\* C17: with serialize_nodes on, the file of every fetched document is
\* written; with serialize_nodes off, no file but the --out file is.
C17_SerializeNodes ==
    /\ self_serialize_nodes =>
          \A i \in 1..Len(results) :
              results[i].state = "finished" => NodeFile(results[i].task.val) \in files
    /\ ~self_serialize_nodes => files \subseteq {cli.out}

\* C18: after a merge the next task list holds no URI twice and no URI
\* that is in parsed_pages.
C18_FrontierDedup ==
    (pc = "while" /\ parsed_pages # <<>>) =>
        /\ \A i, j \in 1..Len(tasks) : i # j => tasks[i].val # tasks[j].val
        /\ \A i \in 1..Len(tasks) : \A j \in 1..Len(parsed_pages) :
              tasks[i].val # parsed_pages[j].val

\* The links among the tasks a result returns: the page tasks are URIRef.
LinksOf(value) == { t.val : t \in { x \in value.tasks : x.kind = "str" } }

\* C19: the links recursively_add returns for a document are the objects
\* in the content namespace of the statements whose predicate is neither
\* hydra PartialCollectionView nor hydra totalItems.
C19_LinkDiscoveryFilter ==
    \A i \in 1..Len(results) :
        results[i].state = "finished" =>
            LinksOf(results[i].value) =
                { t[3].val : t \in { x \in results[i].value.gloc :
                    /\ x[2] # URIRef(<<HYDRA, "PartialCollectionView">>)
                    /\ x[2] # URIRef(<<HYDRA, "totalItems">>)
                    /\ Len(x[3].val) > 0
                    /\ x[3].val[1] = "http://pflu.evolbio.mpg.de/web-services/content/" } }

C19_Witness ==
    \E i \in 1..Len(results) :
        /\ results[i].state = "finished"
        /\ LinksOf(results[i].value) # {}
        /\ \E t \in results[i].value.gloc :
              t[2] = hydra_PartialCollectionView /\ startswith(t[3].val, CONTENT)
        /\ \E t \in results[i].value.gloc : ~startswith(t[3].val, CONTENT)

\* The Graph the data source gives for the task t.
FetchedGraph(t) ==
    IF Response(web, t.val).status = "ok"
    THEN ParseJsonLd(Document(web, t.val))
    ELSE {}

\* C20: at a wave boundary the accumulated Graph is the initial Graph
\* united with the fetched Graphs of the tasks in parsed_pages.
C20_GraphAccumulation ==
    (pc = "while" \/ (pc = "idle" /\ outcome = "returned" /\ ~cleaned)) =>
        Graph = graph_arg.triples
                  \cup UNION { FetchedGraph(parsed_pages[i]) : i \in 1..Len(parsed_pages) }

C20_Witness ==
    /\ pc = "while"
    /\ Len(parsed_pages) >= 2 * chunk_length
    /\ \E i \in 1..Len(parsed_pages) : ~(FetchedGraph(parsed_pages[i]) \subseteq graph_arg.triples)

\* C21: during parse() the Graph and the task list change only in the merge
\* step, which is taken only when every future of the wave has finished;
\* and a chunk is submitted only when the futures at hand are those of the
\* chunks of the current task list submitted before it.
C21_WaveBarrier ==
    [][/\ (pc = "gather" /\ pc' = "while") =>
              \A i \in 1..Len(results) : results[i].state = "finished"
       /\ (InParse /\ (heap' # heap \/ (tasks' # tasks /\ pc' # "idle"))) =>
              (pc = "gather" /\ pc' = "while")
       /\ (submitted' # submitted) =>
              /\ Len(results) = (chunk - 1) * chunk_length
              /\ \A i \in 1..Len(results) : results[i].task = tasks[i]
      ]_vars

C21_Witness ==
    /\ pc = "sleep"
    /\ chunk = 1
    /\ Len(parsed_pages) >= chunk_length
    /\ Graph # graph_arg.triples

\* C22 (as stated): a future that has resolved belongs to a task that is
\* in parsed_pages.
C22_MarkBeforeResolve ==
    \A i \in 1..Len(results) :
        Done(i) => results[i].task \in Range(parsed_pages)

\* C22 (amended): when the wave is gathered, the task of every submitted
\* future is in parsed_pages.
C22_MarkBeforeMerge ==
    pc = "gather" =>
        \A i \in 1..Len(results) : results[i].task \in Range(parsed_pages)

C22_Witness ==
    /\ pc = "gather"
    /\ results # <<>>
    /\ \E i \in 1..Len(results) : ~Done(i)

\* C23: during parse() at most chunk_length submitted futures are
\* unfinished.
C23_BoundedLoad ==
    InParse =>
        Cardinality({ i \in 1..Len(results) : ~Done(i) }) <= chunk_length

\* C24: a task whose URI holds a "?" yields no page task.
C24_AlreadyPaginated ==
    \A i \in 1..Len(results) :
        (results[i].state = "finished" /\ "?" \in Range(results[i].task.val)) =>
            PagesOf(results[i].value) = {}

\* C25: before the first parse() call, a parser with an entry point has
\* exactly that entry point as its task list.
C25_SingleSeed ==
    (pc = "idle" /\ calls = 0 /\ self_entry_point # None) =>
        self_tasks = <<self_entry_point>>

\* C26: a parse() call after the first one submits no task.
C26_DoneState ==
    calls >= 2 => results = <<>>

\* C27: the task list a merge step computes holds no URI of a task of the
\* wave that ends or of a task submitted in an earlier wave.
C27_NoRequeue ==
    [][(pc = "gather" /\ pc' = "while") =>
          \A i \in 1..Len(tasks') :
              /\ \A j \in 1..Len(tasks) : tasks'[i].val # tasks[j].val
              /\ \A j \in 1..Len(submitted) : tasks'[i].val # submitted[j].val
      ]_vars

\* The objects in the content namespace of the statements of a Graph whose
\* predicate is neither hydra PartialCollectionView nor hydra totalItems.
ContentObjects(gloc) ==
    { t[3].val : t \in { x \in gloc :
        /\ x[2] \notin {hydra_PartialCollectionView, hydra_totalItems}
        /\ startswith(x[3].val, CONTENT) } }

\* C28: for a page task (its URI holds "&") the links returned are the
\* content objects of the page document, and the merge step puts each of
\* them on the next task list unless parsed_pages holds it.
C28_LinksOnPages ==
    [][(pc = "gather" /\ pc' = "while") =>
          \A i \in 1..Len(results) :
              "&" \in Range(results[i].task.val) =>
                  /\ PagesOf(results[i].value) = {}
                  /\ LinksOf(results[i].value) = ContentObjects(results[i].value.gloc)
                  /\ \A l \in LinksOf(results[i].value) :
                        str(URIRef(l)) \in Range(tasks') \cup Range(parsed_pages)
      ]_vars

C28_Witness ==
    /\ pc = "while"
    /\ \E i \in 1..Len(parsed_pages) : "&" \in Range(parsed_pages[i].val)
    /\ \E i \in 1..Len(tasks) : tasks[i].kind = "str" /\ tasks[i].val = Item(2)
=============================================================================
